---- MODULE Spec2Model ----
(***************************************************************************)
(* harmonica-sync: one synchronisation pass (sync.ts) over the Harmonica   *)
(* REST API (api.ts), the template renderer (template.ts) and the output   *)
(* directory.  Strings are sequences of one-character strings, so that the *)
(* filename regex, the slug, the date and the keyword search are computed  *)
(* character by character as the code computes them.                       *)
(***************************************************************************)
EXTENDS Integers, Sequences, FiniteSets, TLC

\* ------------------------------------------------------------------ values

\* An optional value (null | undefined in the source): None or Some(v).
None == <<>>
Some(v) == <<v>>
IsSome(o) == Len(o) = 1
Get(o) == o[1]

\* A rejected promise / thrown error of an API or filesystem call.
Fail == [error |-> TRUE]

UpperChars == <<"A","B","C","D","E","F","G","H","I","J","K","L","M",
                "N","O","P","Q","R","S","T","U","V","W","X","Y","Z">>
LowerChars == <<"a","b","c","d","e","f","g","h","i","j","k","l","m",
                "n","o","p","q","r","s","t","u","v","w","x","y","z">>
DigitChars == {"0","1","2","3","4","5","6","7","8","9"}
\* The character class [a-f0-9] of the filename regex.
HexChars == {"a","b","c","d","e","f"} \cup DigitChars
\* The character class [a-z0-9] of the slug regex.
SlugChars == {LowerChars[i] : i \in 1..26} \cup DigitChars

Range(s) == {s[i] : i \in 1..Len(s)}

ToLowerChar(c) ==
  IF \E i \in 1..26 : UpperChars[i] = c
  THEN LowerChars[CHOOSE i \in 1..26 : UpperChars[i] = c]
  ELSE c

\* String.prototype.toLowerCase
toLowerCase(s) == [i \in 1..Len(s) |-> ToLowerChar(s[i])]

\* String.prototype.includes: needle occurs in hay as a contiguous substring.
includes(hay, needle) ==
  \E i \in 0..(Len(hay) - Len(needle)) :
    SubSeq(hay, i + 1, i + Len(needle)) = needle

StartsWithAt(s, i, pat) ==
  /\ i + Len(pat) - 1 <= Len(s)
  /\ SubSeq(s, i, i + Len(pat) - 1) = pat

\* String.prototype.replace(/pat/g, rep) for a literal pattern: left to right,
\* non-overlapping, the replacement text is not rescanned.
RECURSIVE ReplaceAllFrom(_, _, _, _)
ReplaceAllFrom(s, i, pat, rep) ==
  IF i > Len(s) THEN <<>>
  ELSE IF StartsWithAt(s, i, pat)
       THEN rep \o ReplaceAllFrom(s, i + Len(pat), pat, rep)
       ELSE <<s[i]>> \o ReplaceAllFrom(s, i + 1, pat, rep)

ReplaceAll(s, pat, rep) == ReplaceAllFrom(s, 1, pat, rep)

\* ------------------------------------------------------- sync.ts helpers

\* isoString.split('T')[0]
formatDate(isoString) ==
  IF \E i \in 1..Len(isoString) : isoString[i] = "T"
  THEN SubSeq(isoString, 1,
              (CHOOSE i \in 1..Len(isoString) :
                 /\ isoString[i] = "T"
                 /\ \A j \in 1..(i - 1) : isoString[j] # "T") - 1)
  ELSE isoString

\* .replace(/[^a-z0-9]+/g, '-'): every maximal run outside [a-z0-9] becomes one '-'.
RECURSIVE CollapseFrom(_, _)
CollapseFrom(s, i) ==
  IF i > Len(s) THEN <<>>
  ELSE IF s[i] \in SlugChars
       THEN <<s[i]>> \o CollapseFrom(s, i + 1)
       ELSE IF i > 1 /\ s[i - 1] \notin SlugChars
            THEN CollapseFrom(s, i + 1)
            ELSE <<"-">> \o CollapseFrom(s, i + 1)

\* .replace(/^-|-$/g, ''): one leading and one trailing hyphen are removed.
StripHyphens(s) ==
  LET a == IF Len(s) > 0 /\ s[1] = "-" THEN Tail(s) ELSE s
  IN IF Len(a) > 0 /\ a[Len(a)] = "-" THEN SubSeq(a, 1, Len(a) - 1) ELSE a

SlugMax == 60

sanitizeForFilename(text) ==
  LET stripped == StripHyphens(CollapseFrom(toLowerCase(text), 1))
  IN SubSeq(stripped, 1, IF Len(stripped) < SlugMax THEN Len(stripped) ELSE SlugMax)

DateTag == <<"{","{","d","a","t","e","}","}">>
IdTag == <<"{","{","i","d","}","}">>
SlugTag == <<"{","{","s","l","u","g","}","}">>
MdExt == <<".","m","d">>
HstPrefix == <<"h","s","t","_">>

\* resolveFilename without the {{id}} substitution.
resolveFilename_NoId(template, data) ==
  ReplaceAll(ReplaceAll(template, DateTag, data.date), SlugTag, data.slug)

resolveFilename(template, data) ==
  ReplaceAll(ReplaceAll(ReplaceAll(template, DateTag, data.date),
                        IdTag, data.id),
             SlugTag, data.slug)

\* MatchAt with the character class [0-9] in place of [a-f0-9].
MatchAt_DigitsOnly(file, i) ==
  /\ StartsWithAt(file, i, HstPrefix)
  /\ Len(file) - 3 >= i + 4
  /\ \A j \in (i + 4)..(Len(file) - 3) : file[j] \in DigitChars
  /\ SubSeq(file, Len(file) - 2, Len(file)) = MdExt

\* file.match(/(hst_[a-f0-9]+)\.md$/) at start position i: hst_, then one or
\* more of [a-f0-9] reaching exactly to the final ".md".
MatchAt(file, i) ==
  /\ StartsWithAt(file, i, HstPrefix)
  /\ Len(file) - 3 >= i + 4
  /\ \A j \in (i + 4)..(Len(file) - 3) : file[j] \in HexChars
  /\ SubSeq(file, Len(file) - 2, Len(file)) = MdExt

\* The regex's capture group for the leftmost match, None when nothing matches.
FileMatch(file) ==
  IF \E i \in 1..Len(file) : MatchAt(file, i)
  THEN LET i == CHOOSE k \in 1..Len(file) :
                  /\ MatchAt(file, k)
                  /\ \A j \in 1..(k - 1) : ~MatchAt(file, j)
       IN Some(SubSeq(file, i, Len(file) - 3))
  ELSE None

\* getExistingSessionIds with the regex anchored at the start of the name.
getExistingSessionIds_Anchored(exists, names) ==
  IF ~exists THEN {}
  ELSE {SubSeq(f, 1, Len(f) - 3) : f \in {g \in names : Len(g) > 0 /\ MatchAt(g, 1)}}

\* getExistingSessionIds: the identifiers read off the directory's file names
\* (an absent directory is created and yields the empty set).
getExistingSessionIds(exists, names) ==
  IF ~exists THEN {}
  ELSE {Get(FileMatch(f)) : f \in {g \in names : IsSome(FileMatch(g))}}

\* buildTemplateData's participants: number by input position, keep the 'user'
\* messages' content, then drop the participants left without a message.
UserMessages(msgs) ==
  LET kept == SelectSeq(msgs, LAMBDA m : m.role = "user")
  IN [k \in 1..Len(kept) |-> [content |-> kept[k].content]]

Participants(resp) ==
  SelectSeq([i \in 1..Len(resp) |->
               [number |-> i, messages |-> UserMessages(resp[i].messages)]],
            LAMBDA p : Len(p.messages) > 0)

buildTemplateData(session, sum, resp, matchedQueries) ==
  LET participants == Participants(resp)
  IN [topic |-> session.topic,
      date |-> formatDate(session.created_at),
      id |-> session.id,
      participant_count |-> session.participant_count,
      status |-> session.status,
      goal |-> session.goal,
      critical |-> session.critical,
      context |-> session.context,
      summary |-> sum,
      tags |-> matchedQueries,
      responses |-> Len(participants) > 0,
      participants |-> participants]

\* template.ts: resolvedPath = templatePath || getDefaultTemplatePath()
DefaultTemplate == <<"d","e","f">>
CustomTemplate == <<"t","p","l">>

getDefaultTemplatePath == DefaultTemplate

\* renderSession reading the default template whatever path it is given.
ResolvedTemplate_IgnoresConfig(templatePath) == getDefaultTemplatePath

ResolvedTemplate(templatePath) ==
  IF IsSome(templatePath) /\ Len(Get(templatePath)) > 0
  THEN Get(templatePath)
  ELSE getDefaultTemplatePath

\* ------------------------------------------------------------ the world

\* Session identifiers the API may return: two of the form hst_<lowercase hex>
\* and one with upper-case hex digits.
IdA == <<"h","s","t","_","a","1">>
IdB == <<"h","s","t","_","b","2">>
IdU == <<"h","s","t","_","C","4">>
SessionIds == {IdA, IdB, IdU}

Q1 == <<"q","1">>
Q2 == <<"q","2">>
Statuses == <<"completed", "active">>

\* GET /sessions/{id}: the detail record of each session.
Detail(id) ==
  CASE id = IdA ->
         [id |-> IdA, topic |-> <<"D","A","O">>, goal |-> <<"g","o">>,
          status |-> "completed", participant_count |-> 2,
          created_at |-> <<"7","T","9">>, critical |-> None, context |-> None]
    [] id = IdB ->
         [id |-> IdB, topic |-> <<"d","a","o","!">>, goal |-> <<"x">>,
          status |-> "active", participant_count |-> 1,
          created_at |-> <<"7","T","1">>, critical |-> None,
          context |-> Some(<<"G","o","v">>)]
    [] OTHER ->
         [id |-> id, topic |-> <<"z","?","z">>, goal |-> <<"y">>,
          status |-> "active", participant_count |-> 1,
          created_at |-> <<"8">>, critical |-> None, context |-> Some(<<>>)]

\* GET /sessions?q=..&status=..: one page of session summaries (their ids).
ListPages == {<<>>, <<IdA>>, <<IdB, IdA>>, <<IdA, IdU>>}
ListOutcomes == {Fail} \cup {[data |-> d] : d \in ListPages}

\* GET /sessions/{id}/summary
SummaryOutcomes ==
  {Fail, [summary |-> None], [summary |-> Some(<<>>)], [summary |-> Some(<<"s">>)]}

Msg(role, content) == [role |-> role, content |-> content]
\* GET /sessions/{id}/responses
ResponsePages ==
  {<<>>,
   << [messages |-> <<Msg("assistant", "c")>>] >>,
   << [messages |-> <<Msg("user", "a"), Msg("assistant", "b")>>],
      [messages |-> <<Msg("assistant", "c")>>],
      [messages |-> <<Msg("user", "d")>>] >>}
ResponsesOutcomes == {Fail} \cup {[data |-> d] : d \in ResponsePages}

\* fs.writeFileSync returns or throws.
WriteOutcomes == {[ok |-> TRUE], Fail}

\* How many times the command is run on one directory.
MaxRuns == 2

\* ------------------------------------------------------------ the state

VARIABLES
  config,       \* the SyncConfig handed to sync()
  apiKey,       \* process.env.HARMONICA_API_KEY is set
  templates,    \* the template files that exist on disk
  dirExists,    \* the output directory exists
  files,        \* the output directory: file name -> content
  stable,       \* the API and the filesystem answer a repeated request alike
  api,          \* under stable: the answers given so far, request -> answer
  run,          \* which run of sync() this is
  pc,           \* where sync() stands
  existingIds,  \* sync.ts:123
  qi, si,       \* the search loop's position: query index, status index
  sessionMap,   \* sync.ts:127, in insertion order: <<[id, queries], ...>>
  searchLog,    \* the listSessions calls of the search loop: what each returned
  candidates,   \* sync.ts:152
  ci,           \* the candidate loop's position
  details, summary, responses, \* the candidate loop's locals
  markdown,     \* the rendered document (the data Mustache receives)
  trace,        \* per session id: the calls, catches and log lines for it this run
  synced,       \* sync.ts:160
  reported,     \* how the run ended: none | nokey | nothing | count | error
  startFiles,   \* the output directory when the run started
  prevWritten   \* the ids written by earlier runs

vars == <<config, apiKey, templates, dirExists, files, stable, api, run, pc,
          existingIds, qi, si, sessionMap, searchLog, candidates, ci, details,
          summary, responses, markdown, trace, synced, reported, startFiles,
          prevWritten>>

world == <<config, apiKey, templates, stable>>
search == <<qi, si, sessionMap, searchLog>>
locals == <<details, summary, responses, markdown>>

\* config defaults, sync.ts:113-121
filenameTemplate ==
  IF IsSome(config.filename) /\ Len(Get(config.filename)) > 0
  THEN Get(config.filename)
  ELSE DateTag \o <<"-">> \o IdTag \o MdExt
DefaultMinParticipants == 1
minParticipants ==
  IF IsSome(config.minParticipants) THEN Get(config.minParticipants)
  ELSE DefaultMinParticipants
requireSummary ==
  IF IsSome(config.requireSummary) THEN Get(config.requireSummary) ELSE TRUE
templatePath == config.template

\* The answers a request may get, and what is kept of the one it got.
Request(op, arg) == [op |-> op, arg |-> arg]
Answers(key, all) == IF stable /\ key \in DOMAIN api THEN {api[key]} ELSE all
Remember(key, out) == IF stable THEN (key :> out) @@ api ELSE api

EmptyTrace == [id \in SessionIds |-> <<>>]
Log(id, events) == [trace EXCEPT ![id] = @ \o events]

\* ----------------------------------------------------------- the actions

\* MergeResult without the `includes` test before the push.
RECURSIVE MergeResult_NoDedup(_, _, _)
MergeResult_NoDedup(map, data, query) ==
  IF data = <<>> THEN map
  ELSE LET id == Head(data)
           merged ==
             IF \E k \in 1..Len(map) : map[k].id = id
             THEN [k \in 1..Len(map) |->
                     IF map[k].id = id
                     THEN [map[k] EXCEPT !.queries = Append(@, query)]
                     ELSE map[k]]
             ELSE Append(map, [id |-> id, queries |-> <<query>>])
       IN MergeResult_NoDedup(merged, Tail(data), query)

\* sync.ts:133-142: merge one page into the aggregation map.
RECURSIVE MergeResult(_, _, _)
MergeResult(map, data, query) ==
  IF data = <<>> THEN map
  ELSE LET id == Head(data)
           merged ==
             IF \E k \in 1..Len(map) : map[k].id = id
             THEN [k \in 1..Len(map) |->
                     IF map[k].id = id /\ query \notin Range(map[k].queries)
                     THEN [map[k] EXCEPT !.queries = Append(@, query)]
                     ELSE map[k]]
             ELSE Append(map, [id |-> id, queries |-> <<query>>])
       IN MergeResult(merged, Tail(data), query)

\* sync.ts:152: the sessions not yet in the output directory.
NewCandidates(map, existing) ==
  SelectSeq(map, LAMBDA e : e.id \notin existing)

\* sync.ts:174-175: some keyword occurs in the lower-cased topic, goal and context.
KeywordText(d) ==
  toLowerCase(d.topic \o <<" ">> \o d.goal \o <<" ">>
              \o (IF IsSome(d.context) THEN Get(d.context) ELSE <<>>))
KeywordMatch(keywords, d) ==
  \E k \in 1..Len(keywords) : includes(KeywordText(d), toLowerCase(keywords[k]))

\* sync.ts:173: the keyword filter applies.
KeywordsConfigured == IsSome(config.keywords) /\ Len(Get(config.keywords)) > 0

\* `summary === null` in place of `!summary`.
HasSummary_NotNull(sum) == IsSome(sum)

\* !summary: null and the empty string both count as no summary.
HasSummary(sum) == IsSome(sum) /\ Len(Get(sum)) > 0

\* sync.ts:215-219
FilenameFor(d) ==
  resolveFilename(filenameTemplate,
                  [date |-> formatDate(d.created_at), id |-> d.id,
                   slug |-> sanitizeForFilename(d.topic)])

\* template.ts:22: the resolved template file is missing.
TemplateMissing == ResolvedTemplate(templatePath) \notin templates

CurId == candidates[ci].id

ClearLocals ==
  /\ details' = None
  /\ summary' = None
  /\ responses' = <<>>
  /\ markdown' = None

\* `continue`, or the end of the loop body: on to the next candidate or the report.
Continue ==
  /\ ci' = ci + 1
  /\ pc' = IF ci < Len(candidates) THEN "detail" ELSE "report"
  /\ ClearLocals

\* An exception escapes sync(): main().catch prints it and exits with status 1.
Throw ==
  /\ pc' = "done"
  /\ reported' = "error"

\* sync.ts:102-124
Start ==
  /\ pc = "start"
  /\ \/ /\ ~apiKey
        /\ pc' = "done"
        /\ reported' = "nokey"
        /\ UNCHANGED <<dirExists, existingIds, startFiles>>
     \/ /\ apiKey
        /\ existingIds' = getExistingSessionIds(dirExists, DOMAIN files)
        /\ dirExists' = TRUE
        /\ startFiles' = files
        /\ pc' = "search"
        /\ UNCHANGED reported
  /\ UNCHANGED <<world, files, api, run, search, candidates, ci, locals, trace,
                 synced, prevWritten>>

\* sync.ts:129-147: one listSessions call of the search loop.
SearchCall ==
  /\ pc = "search"
  /\ LET query == config.search[qi]
         status == Statuses[si]
         key == Request("list", <<query, status>>)
     IN \E out \in Answers(key, ListOutcomes) :
          /\ \/ /\ out = Fail
                /\ UNCHANGED sessionMap
             \/ /\ out # Fail
                /\ sessionMap' = MergeResult(sessionMap, out.data, query)
          /\ searchLog' = Append(searchLog, [q |-> query, status |-> status, out |-> out])
          /\ api' = Remember(key, out)
  /\ IF si < Len(Statuses)
     THEN /\ si' = si + 1
          /\ UNCHANGED <<qi, pc>>
     ELSE /\ si' = 1
          /\ qi' = qi + 1
          /\ pc' = IF qi < Len(config.search) THEN "search" ELSE "filter"
  /\ UNCHANGED <<world, dirExists, files, run, existingIds, candidates, ci,
                 locals, trace, synced, reported, startFiles, prevWritten>>

\* sync.ts:149-160
FilterNew ==
  /\ pc = "filter"
  /\ candidates' = NewCandidates(sessionMap, existingIds)
  /\ IF candidates' = <<>>
     THEN /\ pc' = "done"
          /\ reported' = "nothing"
     ELSE /\ pc' = "detail"
          /\ UNCHANGED reported
  /\ ci' = 1
  /\ synced' = 0
  /\ searchLog' = <<>>
  /\ UNCHANGED <<world, dirExists, files, api, run, existingIds, qi, si,
                 sessionMap, locals, trace, startFiles, prevWritten>>

\* FetchDetail without the try/catch around getSession.
FetchDetail_Uncaught ==
  /\ pc = "detail"
  /\ LET key == Request("session", CurId)
     IN \E out \in Answers(key, {Fail, Detail(CurId)}) :
          /\ api' = Remember(key, out)
          /\ trace' = Log(CurId, <<"getSession">>)
          /\ \/ /\ out = Fail
                /\ Throw
                /\ UNCHANGED <<ci, locals>>
             \/ /\ out # Fail
                /\ details' = Some(out)
                /\ pc' = "keyword"
                /\ UNCHANGED <<ci, summary, responses, markdown, reported>>
  /\ UNCHANGED <<world, dirExists, files, run, existingIds, search, candidates,
                 synced, startFiles, prevWritten>>

\* sync.ts:163-170
FetchDetail ==
  /\ pc = "detail"
  /\ LET key == Request("session", CurId)
     IN \E out \in Answers(key, {Fail, Detail(CurId)}) :
          /\ api' = Remember(key, out)
          /\ trace' = Log(CurId, <<"getSession">>)
          /\ \/ /\ out = Fail
                /\ Continue
             \/ /\ out # Fail
                /\ details' = Some(out)
                /\ pc' = "keyword"
                /\ UNCHANGED <<ci, summary, responses, markdown>>
  /\ UNCHANGED <<world, dirExists, files, run, existingIds, search, candidates,
                 synced, reported, startFiles, prevWritten>>

\* sync.ts:172-179
KeywordFilter ==
  /\ pc = "keyword"
  /\ \/ /\ KeywordsConfigured
        /\ ~KeywordMatch(Get(config.keywords), Get(details))
        /\ trace' = Log(CurId, <<"skipKeyword">>)
        /\ Continue
     \/ /\ ~(KeywordsConfigured /\ ~KeywordMatch(Get(config.keywords), Get(details)))
        /\ pc' = "participants"
        /\ UNCHANGED <<ci, locals, trace>>
  /\ UNCHANGED <<world, dirExists, files, api, run, existingIds, search,
                 candidates, synced, reported, startFiles, prevWritten>>

\* ParticipantFilter without the `continue` after its log line.
ParticipantFilter_NoContinue ==
  /\ pc = "participants"
  /\ \/ /\ Get(details).participant_count < minParticipants
        /\ trace' = Log(CurId, <<"skipParticipants">>)
     \/ /\ ~(Get(details).participant_count < minParticipants)
        /\ UNCHANGED trace
  /\ pc' = "summary"
  /\ UNCHANGED <<world, dirExists, files, api, run, existingIds, search,
                 candidates, ci, locals, synced, reported, startFiles, prevWritten>>

\* sync.ts:181-185
ParticipantFilter ==
  /\ pc = "participants"
  /\ \/ /\ Get(details).participant_count < minParticipants
        /\ trace' = Log(CurId, <<"skipParticipants">>)
        /\ Continue
     \/ /\ ~(Get(details).participant_count < minParticipants)
        /\ pc' = "summary"
        /\ UNCHANGED <<ci, locals, trace>>
  /\ UNCHANGED <<world, dirExists, files, api, run, existingIds, search,
                 candidates, synced, reported, startFiles, prevWritten>>

\* sync.ts:187-199
FetchSummary ==
  /\ pc = "summary"
  /\ LET key == Request("summary", CurId)
     IN \E out \in Answers(key, SummaryOutcomes) :
          LET got == IF out = Fail THEN None ELSE out.summary
              called == IF out = Fail THEN <<"getSummary", "summaryUnavailable">>
                        ELSE <<"getSummary">>
          IN /\ api' = Remember(key, out)
             /\ \/ /\ requireSummary
                   /\ ~HasSummary(got)
                   /\ trace' = Log(CurId, called \o <<"skipSummary">>)
                   /\ Continue
                \/ /\ ~(requireSummary /\ ~HasSummary(got))
                   /\ trace' = Log(CurId, called)
                   /\ summary' = got
                   /\ pc' = "responses"
                   /\ UNCHANGED <<ci, details, responses, markdown>>
  /\ UNCHANGED <<world, dirExists, files, run, existingIds, search, candidates,
                 synced, reported, startFiles, prevWritten>>

\* FetchResponses with a `continue` in its catch.
FetchResponses_Drop ==
  /\ pc = "responses"
  /\ LET key == Request("responses", CurId)
     IN \E out \in Answers(key, ResponsesOutcomes) :
          /\ api' = Remember(key, out)
          /\ \/ /\ out = Fail
                /\ trace' = Log(CurId, <<"getResponses", "responsesUnavailable">>)
                /\ Continue
             \/ /\ out # Fail
                /\ responses' = out.data
                /\ trace' = Log(CurId, <<"getResponses">>)
                /\ pc' = "render"
                /\ UNCHANGED <<ci, details, summary, markdown>>
  /\ UNCHANGED <<world, dirExists, files, run, existingIds, search, candidates,
                 synced, reported, startFiles, prevWritten>>

\* sync.ts:201-208
FetchResponses ==
  /\ pc = "responses"
  /\ LET key == Request("responses", CurId)
     IN \E out \in Answers(key, ResponsesOutcomes) :
          /\ api' = Remember(key, out)
          /\ \/ /\ out = Fail
                /\ responses' = <<>>
                /\ trace' = Log(CurId, <<"getResponses", "responsesUnavailable">>)
             \/ /\ out # Fail
                /\ responses' = out.data
                /\ trace' = Log(CurId, <<"getResponses">>)
  /\ pc' = "render"
  /\ UNCHANGED <<world, dirExists, files, run, existingIds, search, candidates,
                 ci, details, summary, markdown, synced, reported,
                 startFiles, prevWritten>>

\* sync.ts:210-213 and template.ts:19-28: Mustache.render is the renderer's
\* business; the document is represented by the data it is rendered from.
Render ==
  /\ pc = "render"
  /\ trace' = Log(CurId, <<"render">>)
  /\ \/ /\ TemplateMissing
        /\ Throw
        /\ UNCHANGED <<markdown>>
     \/ /\ ~TemplateMissing
        /\ markdown' = Some(buildTemplateData(Get(details), summary, responses,
                                              candidates[ci].queries))
        /\ pc' = "write"
        /\ UNCHANGED reported
  /\ UNCHANGED <<world, dirExists, files, api, run, existingIds, search,
                 candidates, ci, details, summary, responses, synced,
                 startFiles, prevWritten>>

\* sync.ts:215-224
WriteFile ==
  /\ pc = "write"
  /\ LET filename == FilenameFor(Get(details))
         key == Request("write", filename)
     IN \E out \in Answers(key, WriteOutcomes) :
          /\ api' = Remember(key, out)
          /\ \/ /\ out = Fail
                /\ trace' = Log(CurId, <<"write">>)
                /\ Throw
                /\ UNCHANGED <<files, synced, ci, locals>>
             \/ /\ out # Fail
                /\ files' = (filename :> Get(markdown)) @@ files
                /\ trace' = Log(CurId, <<"write", "written">>)
                /\ synced' = synced + 1
                /\ Continue
                /\ UNCHANGED reported
  /\ UNCHANGED <<world, dirExists, run, existingIds, search, candidates,
                 startFiles, prevWritten>>

\* sync.ts:227
Report ==
  /\ pc = "report"
  /\ reported' = "count"
  /\ pc' = "done"
  /\ UNCHANGED <<world, dirExists, files, api, run, existingIds, search,
                 candidates, ci, locals, trace, synced, startFiles, prevWritten>>

WrittenIds == {id \in SessionIds : "written" \in Range(trace[id])}

\* The command is run again on the same directory.
Rerun ==
  /\ pc = "done"
  /\ run < MaxRuns
  /\ run' = run + 1
  /\ pc' = "start"
  /\ reported' = "none"
  /\ prevWritten' = prevWritten \cup WrittenIds
  /\ existingIds' = {}
  /\ qi' = 1
  /\ si' = 1
  /\ sessionMap' = <<>>
  /\ searchLog' = <<>>
  /\ candidates' = <<>>
  /\ ci' = 1
  /\ ClearLocals
  /\ trace' = EmptyTrace
  /\ synced' = 0
  /\ startFiles' = files
  /\ UNCHANGED <<world, dirExists, files, api>>

\* ------------------------------------------------------ the configurations

SlugPattern == SlugTag \o MdExt
IdSlugPattern == IdTag \o <<"-">> \o SlugTag \o MdExt

KwDao == <<"d","a","o">>
KwSpan == <<"O"," ","G">>
KwNone == <<"n","o">>

\* What an earlier run, or the user, left in the output directory.
OldContent == [old |-> TRUE]
FileA == <<"7","-">> \o IdA \o MdExt
FileASlug == IdA \o <<"-","d","a","o">> \o MdExt
FileSlug == <<"d","a","o">> \o MdExt
FileU == <<"8","-">> \o IdU \o MdExt
Directory(names) == [n \in names |-> OldContent]

BaseConfig ==
  [search |-> <<Q1>>, keywords |-> None, minParticipants |-> None,
   requireSummary |-> None, filename |-> None, template |-> None]

FilterConfigs ==
  {[BaseConfig EXCEPT !.keywords = k, !.minParticipants = m, !.requireSummary = r] :
     k \in {None, Some(<<KwDao>>), Some(<<KwNone, KwSpan>>)},
     m \in {None, Some(2)},
     r \in {None, Some(FALSE)}}

FilenameConfigs ==
  {[BaseConfig EXCEPT !.filename = f] :
     f \in {None, Some(SlugPattern), Some(IdSlugPattern)}}

SearchConfigs ==
  {[BaseConfig EXCEPT !.search = q] : q \in {<<Q1, Q2>>, <<Q1, Q1>>}}

TemplateConfigs ==
  {[BaseConfig EXCEPT !.template = t] : t \in {None, Some(CustomTemplate)}}

\* Values at the edge of the defaults: an empty keyword list, a minimum of 0,
\* an empty filename pattern, an empty template path, the flag set to true.
EdgeConfigs ==
  {[BaseConfig EXCEPT !.keywords = Some(<<>>)],
   [BaseConfig EXCEPT !.minParticipants = Some(0)],
   [BaseConfig EXCEPT !.filename = Some(<<>>)],
   [BaseConfig EXCEPT !.template = Some(<<>>)],
   [BaseConfig EXCEPT !.requireSummary = Some(TRUE)]}

Scenario(c, key, tpls, dir, names) ==
  [config |-> c, apiKey |-> key, templates |-> tpls, dirExists |-> dir,
   names |-> names]

Scenarios ==
  {Scenario(c, TRUE, {DefaultTemplate}, TRUE, {}) : c \in FilterConfigs}
  \cup {Scenario(c, TRUE, {DefaultTemplate}, TRUE, n) :
     c \in FilenameConfigs, n \in {{}, {FileA}, {FileASlug}, {FileSlug}, {FileU}}}
  \cup {Scenario(c, TRUE, {DefaultTemplate}, TRUE, n) :
     c \in SearchConfigs, n \in {{}, {FileA}}}
  \cup {Scenario(c, TRUE, t, TRUE, {}) :
     c \in TemplateConfigs, t \in {{}, {DefaultTemplate}, {CustomTemplate}}}
  \cup {Scenario(c, TRUE, {DefaultTemplate}, TRUE, {FileA}) : c \in EdgeConfigs}
  \cup {Scenario(BaseConfig, k, {DefaultTemplate}, d, {}) :
     k \in BOOLEAN, d \in BOOLEAN}

InitWith(scenarios, isStable) ==
  /\ \E sc \in scenarios :
       /\ config = sc.config
       /\ apiKey = sc.apiKey
       /\ templates = sc.templates
       /\ dirExists = sc.dirExists
       /\ files = Directory(sc.names)
       /\ startFiles = Directory(sc.names)
  /\ stable = isStable
  /\ api = <<>>
  /\ run = 1
  /\ pc = "start"
  /\ existingIds = {}
  /\ qi = 1
  /\ si = 1
  /\ sessionMap = <<>>
  /\ searchLog = <<>>
  /\ candidates = <<>>
  /\ ci = 1
  /\ details = None
  /\ summary = None
  /\ responses = <<>>
  /\ markdown = None
  /\ trace = EmptyTrace
  /\ synced = 0
  /\ reported = "none"
  /\ prevWritten = {}

\* One run of sync() against an API that may answer differently each time.
Init == InitWith(Scenarios, FALSE)

Next ==
  \/ Start
  \/ SearchCall
  \/ FilterNew
  \/ FetchDetail
  \/ KeywordFilter
  \/ ParticipantFilter
  \/ FetchSummary
  \/ FetchResponses
  \/ Render
  \/ WriteFile
  \/ Report

Spec == Init /\ [][Next]_vars

\* Repeated runs of sync() on one directory against an unchanged API and
\* filesystem: a request repeated in a later run is answered as before.
StableConfigs ==
  {BaseConfig,
   [BaseConfig EXCEPT !.filename = Some(IdSlugPattern)],
   [BaseConfig EXCEPT !.minParticipants = Some(2), !.requireSummary = Some(FALSE)]}

StableScenarios ==
  {Scenario(c, TRUE, {DefaultTemplate}, TRUE, {}) : c \in StableConfigs}
  \cup {Scenario(BaseConfig, TRUE, {DefaultTemplate}, FALSE, {}),
        Scenario(BaseConfig, TRUE, {DefaultTemplate}, TRUE, {FileA}),
        Scenario(BaseConfig, TRUE, {}, TRUE, {}),
        Scenario(BaseConfig, FALSE, {DefaultTemplate}, TRUE, {})}

InitStable == InitWith(StableScenarios, TRUE)

NextStable == Next \/ Rerun

SpecStable == InitStable /\ [][NextStable]_vars

\* buildTemplateData on its own: every list of at most MaxParticipants
\* participants with at most MaxMessages messages each.
MaxParticipants == 3
MaxMessages == 2

MessagePool == {Msg("user", "a"), Msg("assistant", "b"), Msg("user", "d")}
SeqsUpTo(S, n) == UNION {[1..k -> S] : k \in 0..n}
ResponseLists ==
  SeqsUpTo({[messages |-> m] : m \in SeqsUpTo(MessagePool, MaxMessages)},
           MaxParticipants)

InitProj ==
  /\ config = BaseConfig
  /\ apiKey = TRUE
  /\ templates = {DefaultTemplate}
  /\ dirExists = TRUE
  /\ files = Directory({})
  /\ startFiles = Directory({})
  /\ stable = FALSE
  /\ api = <<>>
  /\ run = 1
  /\ pc = "project"
  /\ existingIds = {}
  /\ qi = 1
  /\ si = 1
  /\ sessionMap = <<>>
  /\ searchLog = <<>>
  /\ candidates = <<>>
  /\ ci = 1
  /\ details = Some(Detail(IdA))
  /\ summary = None
  /\ responses \in ResponseLists
  /\ markdown = None
  /\ trace = EmptyTrace
  /\ synced = 0
  /\ reported = "none"
  /\ prevWritten = {}

\* sync.ts:212
Project ==
  /\ pc = "project"
  /\ markdown' = Some(buildTemplateData(Get(details), summary, responses, <<Q1>>))
  /\ pc' = "projected"
  /\ UNCHANGED <<world, dirExists, files, api, run, existingIds, search,
                 candidates, ci, details, summary, responses, trace, synced,
                 reported, startFiles, prevWritten>>

SpecProj == InitProj /\ [][Project]_vars

\* ------------------------------------------------------------ the claims

Keys(map) == {map[k].id : k \in 1..Len(map)}
Events(id) == Range(trace[id])
LowerHex == {"0","1","2","3","4","5","6","7","8","9","a","b","c","d","e","f"}
AnyHex == LowerHex \cup {"A","B","C","D","E","F"}

\* id is hst_ followed by one or more lower-case hex digits.
WellFormedId(id) ==
  /\ Len(id) > 4
  /\ \A j \in 1..4 : id[j] = HstPrefix[j]
  /\ \A j \in 5..Len(id) : id[j] \in LowerHex

EndsWith(s, suffix) ==
  /\ Len(suffix) <= Len(s)
  /\ \A j \in 1..Len(suffix) : s[Len(s) - Len(suffix) + j] = suffix[j]

\* The file name contains the identifier as a whole token: the identifier's
\* characters, not followed by a further hex digit.
EmbedsId(f, id) ==
  \E p \in 1..(Len(f) - Len(id) + 1) :
    /\ \A j \in 1..Len(id) : f[p + j - 1] = id[j]
    /\ (p + Len(id) <= Len(f) => f[p + Len(id)] \notin AnyHex)

DefaultPattern ==
  <<"{","{","d","a","t","e","}","}","-","{","{","i","d","}","}",".","m","d">>

\* C1 as stated: a session whose identifier is embedded anywhere in the name of
\* a file present when the run starts is neither fetched nor written in that run.
C1_EmbeddedIdNeverFetched ==
  \A f \in DOMAIN startFiles : \A id \in SessionIds :
    EmbedsId(f, id) => trace[id] = <<>>

\* C1 as amended: a session whose identifier (hst_ and lower-case hex digits)
\* immediately precedes the .md extension of a file present when the run starts
\* gets no getSession, getSummary or getResponses call and no file in that run,
\* also when searches return it.
C1_ExistingIdNeverFetched ==
  \A f \in DOMAIN startFiles : \A id \in SessionIds :
    (WellFormedId(id) /\ EndsWith(f, id \o <<".","m","d">>)) =>
      /\ trace[id] = <<>>
      /\ id \notin {candidates[k].id : k \in 1..Len(candidates)}
      /\ pc # "start" => id \in existingIds

\* C1's case: the run went through its candidates while a session returned by
\* both searches stayed untouched because its file was already there.
C1_Witness ==
  /\ pc = "done"
  /\ reported = "count"
  /\ synced > 0
  /\ FileA \in DOMAIN startFiles
  /\ \E k \in 1..Len(sessionMap) : sessionMap[k].id = IdA
  /\ trace[IdA] = <<>>

\* Every identifier the searches have returned so far, under an unchanged API.
ReturnedIds ==
  UNION {Range(api[k].data) : k \in {r \in DOMAIN api : r.op = "list" /\ api[r] # Fail}}

\* C2: under the default filename pattern, in a run after the first against an
\* unchanged API: every hst_<lowercase hex> session an earlier run wrote is in the
\* already-synced set and gets no call; and when all identifiers have that form,
\* the run writes nothing and leaves the output directory as it found it.
C2_SecondRunIdempotent ==
  (filenameTemplate = DefaultPattern /\ run > 1 /\ pc # "start") =>
    /\ \A id \in prevWritten :
         WellFormedId(id) => (id \in existingIds /\ trace[id] = <<>>)
    /\ (\A id \in ReturnedIds : WellFormedId(id)) =>
         /\ files = startFiles
         /\ \A id \in SessionIds : "written" \notin Events(id)

\* C2's case: a second run ended, having met again the sessions the first run
\* wrote and a session the first run could not sync.
C2_Witness ==
  /\ run = 2
  /\ pc = "done"
  /\ filenameTemplate = DefaultPattern
  /\ {IdA, IdB} \subseteq Keys(sessionMap)
  /\ IdA \in prevWritten
  /\ IdB \notin prevWritten
  /\ trace[IdB] # <<>>
  /\ \A id \in ReturnedIds : WellFormedId(id)

\* The positions of the input participants that have a 'user' message.
Retained(resp) ==
  {i \in 1..Len(resp) :
     \E k \in 1..Len(resp[i].messages) : resp[i].messages[k].role = "user"}

\* C3: the projected participants are the input participants having a 'user'
\* message, in input order, each with its 'user' messages in order, numbered
\* contiguously 1..k.
C3_ContiguousNumbering ==
  pc = "projected" =>
    LET out == Get(markdown).participants
        kept == Retained(responses)
    IN /\ Len(out) = Cardinality(kept)
       /\ Get(markdown).responses = (kept # {})
       /\ \A n \in 1..Len(out) :
            /\ out[n].number = n
            /\ \E i \in kept :
                 /\ Cardinality({j \in kept : j < i}) = n - 1
                 /\ out[n].messages =
                      [k \in 1..Len(UserMessages(responses[i].messages)) |->
                         UserMessages(responses[i].messages)[k]]

\* The listSessions calls, so far, that succeeded with `id` on their page.
Hits(id) ==
  {k \in 1..Len(searchLog) :
     searchLog[k].out # Fail /\ id \in Range(searchLog[k].out.data)}

\* C4: while and after the search loop runs, the aggregation map holds exactly
\* the identifiers returned by a successful call; each one's labels are the
\* terms of the successful calls that returned it, without duplicates, ordered
\* by first appearance; at the end of the loop every term has been searched
\* with both statuses, whatever calls failed.
C4_AggregatedSearch ==
  pc \in {"search", "filter"} =>
    /\ Keys(sessionMap) = {id \in SessionIds : Hits(id) # {}}
    /\ \A a, b \in 1..Len(sessionMap) : sessionMap[a].id = sessionMap[b].id => a = b
    /\ \A e \in Range(sessionMap) :
         /\ Range(e.queries) = {searchLog[k].q : k \in Hits(e.id)}
         /\ \A a, b \in 1..Len(e.queries) :
              a < b =>
                /\ e.queries[a] # e.queries[b]
                /\ \E k \in Hits(e.id) :
                     /\ searchLog[k].q = e.queries[a]
                     /\ \A m \in Hits(e.id) : searchLog[m].q = e.queries[b] => k < m
    /\ pc = "filter" =>
         /\ Len(searchLog) = 2 * Len(config.search)
         /\ \A n \in 1..Len(config.search) :
              /\ searchLog[2 * n - 1].q = config.search[n]
              /\ searchLog[2 * n - 1].status = "completed"
              /\ searchLog[2 * n].q = config.search[n]
              /\ searchLog[2 * n].status = "active"

\* C4's case: the loop is over, a call failed and a later one succeeded, and a
\* session found by two terms carries both labels.
C4_Witness ==
  /\ pc = "filter"
  /\ \E a, b \in 1..Len(searchLog) :
       /\ a < b
       /\ searchLog[a].out = Fail
       /\ searchLog[b].out # Fail
       /\ searchLog[b].out.data # <<>>
  /\ \E e \in Range(sessionMap) : e.queries = <<Q1, Q2>>
  /\ \E e \in Range(sessionMap) : Cardinality(Hits(e.id)) > Len(e.queries)

Processed(k) == trace[candidates[k].id] # <<>>

ClaimMinParticipants ==
  IF config.minParticipants = None THEN 1 ELSE config.minParticipants[1]
ClaimRequireSummary ==
  IF config.requireSummary = None THEN TRUE ELSE config.requireSummary[1]
ClaimKeywords ==
  IF config.keywords = None THEN <<>> ELSE config.keywords[1]

\* The candidate the loop body is working on (also when it threw).
Current(id) ==
  /\ pc \in {"keyword", "participants", "summary", "responses", "render", "write"}
     \/ reported = "error"
  /\ ci \in 1..Len(candidates)
  /\ candidates[ci].id = id

\* The document now on disk that was rendered for session id, if any.
DocsOf(id) ==
  {files[f] : f \in {g \in DOMAIN files : files[g] # OldContent /\ files[g].id = id}}

\* C6: a getSummary failure acts as a null summary (the candidate is skipped
\* exactly when a summary is required) and a getResponses failure acts as an
\* empty list: the candidate goes on to be rendered, and in a run that reaches
\* its report it is written and counted, with responses = false and no
\* participants.
C6_SoftFailures ==
  /\ synced = Cardinality(WrittenIds)
  /\ \A id \in SessionIds :
       LET ev == Events(id)
       IN /\ "skipSummary" \in ev => ClaimRequireSummary
          /\ "summaryUnavailable" \in ev =>
               IF ClaimRequireSummary
               THEN "skipSummary" \in ev
               ELSE \/ "getResponses" \in ev
                    \/ Current(id) /\ pc = "responses" /\ summary = None
          /\ "responsesUnavailable" \in ev =>
               \/ "render" \in ev
               \/ Current(id) /\ pc = "render" /\ responses = <<>>
          /\ (Current(id) /\ markdown # None) =>
               /\ "summaryUnavailable" \in ev => markdown[1].summary = None
               /\ "responsesUnavailable" \in ev =>
                    /\ markdown[1].responses = FALSE
                    /\ markdown[1].participants = <<>>
          /\ (pc = "done" /\ reported = "count"
              /\ ("responsesUnavailable" \in ev
                  \/ ("summaryUnavailable" \in ev /\ ~ClaimRequireSummary))) =>
               "written" \in ev
          /\ \A doc \in DocsOf(id) :
               /\ "summaryUnavailable" \in ev => doc.summary = None
               /\ "responsesUnavailable" \in ev =>
                    /\ doc.responses = FALSE
                    /\ doc.participants = <<>>

\* C6's case: a candidate whose summary and responses fetches both failed was
\* written and counted, its document without summary and participants.
C6_Witness ==
  /\ pc = "done"
  /\ reported = "count"
  /\ synced = 2
  /\ {"summaryUnavailable", "responsesUnavailable", "written"} \subseteq Events(IdA)
  /\ \E doc \in DocsOf(IdA) : doc.responses = FALSE /\ doc.summary = None

\* kw occurs in text, letter case ignored.
OccursIgnoringCase(text, kw) ==
  \E p \in 1..(Len(text) - Len(kw) + 1) :
    \A j \in 1..Len(kw) : ToLowerChar(text[p + j - 1]) = ToLowerChar(kw[j])

ClaimText(id) ==
  Detail(id).topic \o <<" ">> \o Detail(id).goal \o <<" ">>
    \o (IF Detail(id).context = None THEN <<>> ELSE Detail(id).context[1])

KeywordRejects(id) ==
  /\ ClaimKeywords # <<>>
  /\ \A k \in 1..Len(ClaimKeywords) : ~OccursIgnoringCase(ClaimText(id), ClaimKeywords[k])

CountRejects(id) == Detail(id).participant_count < ClaimMinParticipants

SummaryCalls == {<<"getSummary">>, <<"getSummary", "summaryUnavailable">>}
ResponsesCalls == {<<"getResponses">>, <<"getResponses", "responsesUnavailable">>}
Fetched ==
  {<<"getSession">> \o a \o b : a \in SummaryCalls, b \in ResponsesCalls}
StageTraces ==
  {<<>>, <<"getSession">>, <<"getSession", "skipKeyword">>,
   <<"getSession", "skipParticipants">>}
  \cup {<<"getSession">> \o a : a \in SummaryCalls}
  \cup {<<"getSession">> \o a \o <<"skipSummary">> : a \in SummaryCalls}
  \cup Fetched
  \cup {t \o <<"render">> : t \in Fetched}
  \cup {t \o <<"render", "write">> : t \in Fetched}
  \cup {t \o <<"render", "write", "written">> : t \in Fetched}

\* C7: for every candidate the steps come in the order detail fetch, keyword
\* filter, participant-count filter, summary fetch and filter, responses fetch,
\* render, write, and a rejection is the candidate's last step: a keyword
\* rejection leaves no participant-count line and no getSummary call, a
\* participant-count rejection no getSummary call, a summary rejection no
\* getResponses call, render or write.
C7_StageOrder ==
  \A id \in SessionIds :
    /\ trace[id] \in StageTraces
    /\ "skipKeyword" \in Events(id) => KeywordRejects(id)
    /\ "skipParticipants" \in Events(id) => CountRejects(id)
    /\ KeywordRejects(id) =>
         \/ trace[id] \in {<<>>, <<"getSession", "skipKeyword">>}
         \/ trace[id] = <<"getSession">> /\ (Current(id) => pc = "keyword")
    /\ (CountRejects(id) /\ ~KeywordRejects(id)) =>
         \/ trace[id] \in {<<>>, <<"getSession", "skipParticipants">>}
         \/ trace[id] = <<"getSession">> /\ (Current(id) => pc \in {"keyword", "participants"})

\* C7's case: one run rejected a candidate at the keyword filter, another at
\* the participant count and a third at the summary filter.
C7_Witness ==
  /\ pc = "done"
  /\ trace[IdU] = <<"getSession", "skipKeyword">>
  /\ trace[IdB] = <<"getSession", "skipParticipants">>
  /\ trace[IdA] = <<"getSession", "getSummary", "skipSummary">>

\* The files in the output directory that were not there when the run started.
NewFiles == DOMAIN files \ DOMAIN startFiles

\* C8 as stated: the reported synced count is the number of files in the output
\* directory after the run that were not there before it, whatever the
\* filename pattern.
C8_CountIsNewFiles ==
  (pc = "done" /\ reported = "count") => synced = Cardinality(NewFiles)

\* C8 as amended: the synced count is the number of candidates whose file was
\* written, which is never less than the number of new files; the two are
\* equal when the written candidates' filenames are pairwise distinct and none
\* was in the directory before, as under the default pattern with identifiers
\* of the form hst_<lowercase hex>.
C8_CountIsWrites ==
  /\ synced = Cardinality({id \in SessionIds : "written" \in Events(id)})
  /\ Cardinality(NewFiles) <= synced
  /\ (pc = "done" /\ reported = "count") =>
       LET done == {id \in SessionIds : "written" \in Events(id)}
           names == {FilenameFor(Detail(id)) : id \in done}
       IN /\ (Cardinality(names) = Cardinality(done)
              /\ names \cap DOMAIN startFiles = {})
             => synced = Cardinality(NewFiles)
          /\ (config.filename = None /\ \A a \in done : WellFormedId(a))
             => synced = Cardinality(NewFiles)

\* C8's case: under the default pattern a run wrote two files and reported 2.
C8_Witness ==
  /\ pc = "done"
  /\ reported = "count"
  /\ config.filename = None
  /\ synced = 2
  /\ Cardinality(NewFiles) = 2
  /\ DOMAIN startFiles # {}

\* The template file the run would read (the configured path, or the default
\* one when no path or an empty path is configured) does not exist.
ClaimTemplateMissing ==
  (IF config.template = None \/ config.template = Some(<<>>)
   THEN DefaultTemplate
   ELSE config.template[1]) \notin templates

\* C9 as stated: with the template file missing, every run (that has its API
\* key) ends in failure and writes no session file.
C9_MissingTemplateAlwaysFatal ==
  (ClaimTemplateMissing /\ apiKey /\ pc = "done") =>
    /\ reported = "error"
    /\ files = startFiles

\* C9 as amended: with the template file missing no session file is written;
\* the run fails as soon as a candidate reaches rendering, and ends normally
\* when no candidate gets that far (none new, or all rejected or failed before).
C9_MissingTemplateFatalAtRender ==
  ClaimTemplateMissing =>
    /\ files = startFiles
    /\ \A id \in SessionIds :
         /\ "written" \notin Events(id)
         /\ "write" \notin Events(id)
         /\ "render" \in Events(id) => (pc = "done" /\ reported = "error")
    /\ (pc = "done" /\ apiKey) =>
         (reported = "error" <=> \E id \in SessionIds : "render" \in Events(id))

\* C9's case: the configured template file is missing (the default one is
\* there) and the run failed at the second candidate, the first one rejected.
C9_Witness ==
  /\ config.template # None
  /\ DefaultTemplate \in templates
  /\ ClaimTemplateMissing
  /\ pc = "done"
  /\ reported = "error"
  /\ ci = 2
  /\ files = startFiles

\* C10: a file is written only for a candidate whose getSession succeeded,
\* that matches a keyword when keywords are configured, that has at least
\* minParticipants participants, and for which a non-empty summary was
\* obtained when one is required.
C10_WrittenPassedEveryGate ==
  /\ \A id \in SessionIds :
       "write" \in Events(id) =>
         /\ Len(trace[id]) > 1
         /\ trace[id][1] = "getSession"
         /\ ~KeywordRejects(id)
         /\ ~CountRejects(id)
         /\ ClaimRequireSummary =>
              /\ "summaryUnavailable" \notin Events(id)
              /\ "skipSummary" \notin Events(id)
         /\ Current(id) =>
              /\ details = <<Detail(id)>>
              /\ ClaimRequireSummary => (summary # None /\ summary[1] # <<>>)
  /\ \A f \in DOMAIN files :
       files[f] # OldContent =>
         /\ "written" \in Events(files[f].id)
         /\ ClaimRequireSummary =>
              (files[f].summary # None /\ files[f].summary[1] # <<>>)

\* C10's case: with keywords and a minimum of two participants configured and
\* the summary required, one candidate was written and the two others were
\* turned away by the keyword and by the participant count.
C10_Witness ==
  /\ pc = "done"
  /\ ClaimKeywords # <<>>
  /\ ClaimMinParticipants = 2
  /\ ClaimRequireSummary
  /\ "written" \in Events(IdA)
  /\ "skipParticipants" \in Events(IdB)
  /\ "skipKeyword" \in Events(IdU)

====
